---- MODULE Spec2Model ----
(***************************************************************************)
(* Model of mlb_team_timeline_app.py: the static franchise tables, the     *)
(* tenure-block extractor get_player_team_blocks, the fuzzy franchise      *)
(* resolver get_franchise_code_from_input, the plot driver                 *)
(* plot_multiple_timelines_plotly and the roster filter of main.           *)
(*                                                                         *)
(* The three data frames (people, batting, teams) are sequences of rows,   *)
(* their columns named in lower case as after columns.str.lower().  Years  *)
(* are small integers 1..MaxYear standing for consecutive seasons.         *)
(***************************************************************************)
EXTENDS Integers, Sequences, FiniteSets, TLC

VARIABLES people, batting, teams, team_name_input, scores,
          pc, call, ret, franchise_code, matched_name,
          only_team_players, team_player_names, plotted, traces, message

vars == <<people, batting, teams, team_name_input, scores,
          pc, call, ret, franchise_code, matched_name,
          only_team_players, team_player_names, plotted, traces, message>>

(***************************************************************************)
(* Bounds of the model.                                                    *)
(***************************************************************************)
\* seasons are 1..MaxYear
MaxYear == 3
\* at most MaxRows rows in the batting frame given to get_player_team_blocks
MaxRows == 3
\* at most MaxMainRows rows in the batting frame main runs on
MaxMainRows == 2
\* at most MaxHits directory names get a non-zero score for one query
MaxHits == 2

Years == 1..MaxYear

(***************************************************************************)
(* Python / pandas values.                                                 *)
(***************************************************************************)
\* Python's None
None == "None"
\* the float NaN pandas puts in a cell that has no value (also NaT)
NaN == "NaN"

\* Python's == and != on cell values: NaN compares unequal to everything,
\* itself included
PyEq(a, b) == IF a = NaN \/ b = NaN THEN FALSE ELSE a = b
PyNe(a, b) == IF a = NaN \/ b = NaN THEN TRUE ELSE a /= b

(***************************************************************************)
(* The static lookup tables.                                               *)
(***************************************************************************)
TEAM_COLORS ==
    ( "ARI" :> "#A71930" @@ "ATL" :> "#CE1141" @@ "BAL" :> "#DF4601" @@ "BOS" :> "#BD3039"
   @@ "CHC" :> "#0E3386" @@ "CHW" :> "#27251F" @@ "CIN" :> "#C6011F" @@ "CLE" :> "#0C2340"
   @@ "COL" :> "#33006F" @@ "DET" :> "#0C2340" @@ "HOU" :> "#EB6E1F" @@ "KCR" :> "#004687"
   @@ "LAA" :> "#BA0021" @@ "LAD" :> "#005A9C" @@ "MIA" :> "#00A3E0" @@ "MIL" :> "#12284B"
   @@ "MIN" :> "#002B5C" @@ "NYM" :> "#002D72" @@ "NYY" :> "#003087" @@ "OAK" :> "#003831"
   @@ "PHI" :> "#E81828" @@ "PIT" :> "#FDB827" @@ "SDP" :> "#2F241D" @@ "SEA" :> "#0C2C56"
   @@ "SFG" :> "#FD5A1E" @@ "STL" :> "#C41E3A" @@ "TBR" :> "#092C5C" @@ "TEX" :> "#003278"
   @@ "TOR" :> "#134A8E" @@ "WSN" :> "#AB0003" )

\* the items of the dict OFFICIAL_TEAM_NAMES, in insertion order
OFFICIAL_TEAM_NAMES_items ==
    << <<"Arizona Diamondbacks", "ARI">>, <<"Atlanta Braves", "ATL">>,
       <<"Baltimore Orioles", "BAL">>, <<"Boston Red Sox", "BOS">>,
       <<"Chicago Cubs", "CHC">>, <<"Chicago White Sox", "CHW">>,
       <<"Cincinnati Reds", "CIN">>, <<"Cleveland Guardians", "CLE">>,
       <<"Colorado Rockies", "COL">>, <<"Detroit Tigers", "DET">>,
       <<"Houston Astros", "HOU">>, <<"Kansas City Royals", "KCR">>,
       <<"Los Angeles Angels", "ANA">>, <<"Los Angeles Dodgers", "LAD">>,
       <<"Miami Marlins", "FLA">>, <<"Milwaukee Brewers", "MIL">>,
       <<"Minnesota Twins", "MIN">>, <<"New York Mets", "NYM">>,
       <<"New York Yankees", "NYY">>, <<"Oakland Athletics", "OAK">>,
       <<"Philadelphia Phillies", "PHI">>, <<"Pittsburgh Pirates", "PIT">>,
       <<"San Diego Padres", "SDP">>, <<"Seattle Mariners", "SEA">>,
       <<"San Francisco Giants", "SFG">>, <<"St. Louis Cardinals", "STL">>,
       <<"Tampa Bay Rays", "TBR">>, <<"Texas Rangers", "TEX">>,
       <<"Toronto Blue Jays", "TOR">>, <<"Washington Nationals", "WSN">> >>

\* OFFICIAL_TEAM_NAMES.keys(), in iteration order
OFFICIAL_TEAM_NAMES_keys ==
    [i \in 1..Len(OFFICIAL_TEAM_NAMES_items) |-> OFFICIAL_TEAM_NAMES_items[i][1]]

\* the dict itself: a later item with the same key replaces an earlier one
OFFICIAL_TEAM_NAMES ==
    [n \in {OFFICIAL_TEAM_NAMES_items[i][1] : i \in 1..Len(OFFICIAL_TEAM_NAMES_items)} |->
        LET last == CHOOSE i \in 1..Len(OFFICIAL_TEAM_NAMES_items) :
                       /\ OFFICIAL_TEAM_NAMES_items[i][1] = n
                       /\ \A j \in 1..Len(OFFICIAL_TEAM_NAMES_items) :
                             OFFICIAL_TEAM_NAMES_items[j][1] = n => j <= i
        IN  OFFICIAL_TEAM_NAMES_items[last][2]]

\* {v: k for k, v in OFFICIAL_TEAM_NAMES.items()}: the last name of a code wins
TEAM_NAMES ==
    [c \in {OFFICIAL_TEAM_NAMES_items[i][2] : i \in 1..Len(OFFICIAL_TEAM_NAMES_items)} |->
        LET last == CHOOSE i \in 1..Len(OFFICIAL_TEAM_NAMES_items) :
                       /\ OFFICIAL_TEAM_NAMES_items[i][2] = c
                       /\ \A j \in 1..Len(OFFICIAL_TEAM_NAMES_items) :
                             OFFICIAL_TEAM_NAMES_items[j][2] = c => j <= i
        IN  OFFICIAL_TEAM_NAMES_items[last][1]]

\* dict.get(key, default)
DictGet(d, key, default) == IF key \in DOMAIN d THEN d[key] ELSE default

(***************************************************************************)
(* get_player_team_blocks                                                  *)
(***************************************************************************)
\* a function's outcome: the value it returns, or the exception it raises
Return(v) == [raised |-> None, value |-> v]
Raise(e) == [raised |-> e, value |-> <<>>]

\* people_df[(namefirst == player_first) & (namelast == player_last)]
SelectPlayer(player_first, player_last, people_df) ==
    SelectSeq(people_df, LAMBDA r : PyEq(r.namefirst, player_first)
                                    /\ PyEq(r.namelast, player_last))

\* batting_df[batting_df['playerid'] == player_id]
SelectBatting(player_id, batting_df) ==
    SelectSeq(batting_df, LAMBDA r : r.playerid = player_id)

\* the rows one left row yields in a left merge on (teamid, yearid): one per
\* matching right row, in the right frame's order, or one with a NaN franchid
MergeRow(row, teams_df) ==
    LET hits == SelectSeq(teams_df, LAMBDA t : t.teamid = row.teamid
                                              /\ t.yearid = row.yearid)
    IN  IF Len(hits) = 0
        THEN << [playerid |-> row.playerid, yearid |-> row.yearid,
                 teamid |-> row.teamid, franchid |-> NaN] >>
        ELSE [i \in 1..Len(hits) |->
                 [playerid |-> row.playerid, yearid |-> row.yearid,
                  teamid |-> row.teamid, franchid |-> hits[i].franchid]]

\* left.merge(teams_df[['teamid','yearid','franchid']], on=['teamid','yearid'], how='left')
RECURSIVE Merge(_, _)
Merge(left, teams_df) ==
    IF left = <<>> THEN <<>>
    ELSE MergeRow(Head(left), teams_df) \o Merge(Tail(left), teams_df)

\* mutant of SortValues: the frame is not sorted at all
SortValues_Unsorted(df) ==
    LET n == Len(df)
        perms == {p \in [1..n -> 1..n] : \A i, j \in 1..n : i /= j => p[i] /= p[j]}
    IN  {[i \in 1..n |-> df[p[i]]] : p \in perms}

\* df.sort_values('yearid') with the default, unstable sort: every ordering of
\* the rows that is ascending in yearid is a possible result
SortValues(df) ==
    LET n == Len(df)
        perms == {p \in [1..n -> 1..n] :
                     /\ \A i, j \in 1..n : i /= j => p[i] /= p[j]
                     /\ \A i \in 1..(n - 1) : df[p[i]].yearid <= df[p[i + 1]].yearid}
    IN  {[i \in 1..n |-> df[p[i]]] : p \in perms}

\* the for loop over merged.iterrows(), from row i on
RECURSIVE ScanRows(_, _, _, _, _)
ScanRows(merged, i, blocks, last_team, start_year) ==
    IF i > Len(merged)
    THEN [blocks |-> blocks, last_team |-> last_team, start_year |-> start_year]
    ELSE LET year == merged[i].yearid
             team == merged[i].franchid
         IN  IF PyNe(team, last_team)
             THEN ScanRows(merged, i + 1,
                           IF last_team /= None
                           THEN Append(blocks, <<start_year, year - 1, last_team>>)
                           ELSE blocks,
                           team, year)
             ELSE ScanRows(merged, i + 1, blocks, last_team, start_year)

\* mutant of CloseLast: the last block is closed at the year it started
CloseLast_AtStartYear(merged, s) ==
    IF s.last_team /= None
    THEN Return(Append(s.blocks, <<s.start_year, s.start_year, s.last_team>>))
    ELSE Return(s.blocks)

\* the block closed after the loop; `year` is bound only if the loop ran
CloseLast(merged, s) ==
    IF s.last_team /= None
    THEN IF Len(merged) = 0
         THEN Raise("UnboundLocalError")
         ELSE Return(Append(s.blocks,
                            <<s.start_year, merged[Len(merged)].yearid, s.last_team>>))
    ELSE Return(s.blocks)

\* lines 85-100 on one sorted merged frame
ExtractBlocks(merged) == CloseLast(merged, ScanRows(merged, 1, <<>>, None, None))

\* player['playerid'].values[0] and everything after it
BlocksOfFirstMatch(player, batting_df, teams_df) ==
    IF Len(player) = 0
    THEN {Raise("IndexError")}
    ELSE LET player_id == player[1].playerid
             player_batting == SelectBatting(player_id, batting_df)
         IN  {ExtractBlocks(m) : m \in SortValues(Merge(player_batting, teams_df))}

\* mutant of get_player_team_blocks: no `if player.empty` check
get_player_team_blocks_NoEmptyCheck(player_first, player_last, people_df, batting_df, teams_df) ==
    BlocksOfFirstMatch(SelectPlayer(player_first, player_last, people_df),
                       batting_df, teams_df)

\* the outcomes get_player_team_blocks can have on these arguments
get_player_team_blocks(player_first, player_last, people_df, batting_df, teams_df) ==
    LET player == SelectPlayer(player_first, player_last, people_df)
    IN  IF Len(player) = 0
        THEN {Return(<<>>)}
        ELSE BlocksOfFirstMatch(player, batting_df, teams_df)

(***************************************************************************)
(* get_franchise_code_from_input                                           *)
(***************************************************************************)
\* The scorer fuzz.WRatio(user_input, choice) is an input of the model: score[i]
\* is its value (0..100) on the i-th choice.
\*
\* process.extractOne's loop from choice i on: a choice replaces the best one
\* only with a strictly higher score, and a score of 100 ends the loop
RECURSIVE ExtractOneFrom(_, _, _, _)
ExtractOneFrom(score, choices, i, best) ==
    IF i > Len(choices) THEN best
    ELSE LET better == (~best.found) \/ score[i] > best.score
             next == IF better
                     THEN [found |-> TRUE, choice |-> choices[i],
                           score |-> score[i], index |-> i]
                     ELSE best
         IN  IF score[i] = 100 THEN next
             ELSE ExtractOneFrom(score, choices, i + 1, next)

\* process.extractOne(user_input, choices, scorer=fuzz.WRatio): the match
\* (choice, score, index), or None (found = FALSE) when there is no choice
ExtractOne(score, choices) ==
    ExtractOneFrom(score, choices, 1,
                   [found |-> FALSE, choice |-> None, score |-> 0, index |-> 0])

\* mutant of get_franchise_code_from_input: a score of 70 is not accepted
get_franchise_code_from_input_Above70(score) ==
    LET match == ExtractOne(score, OFFICIAL_TEAM_NAMES_keys)
    IN  IF match.found /\ match.score > 70
        THEN <<OFFICIAL_TEAM_NAMES[match.choice], match.choice>>
        ELSE <<None, None>>

\* returns <<franchise code, matched name>>
get_franchise_code_from_input(score) ==
    LET match == ExtractOne(score, OFFICIAL_TEAM_NAMES_keys)
    IN  IF match.found /\ match.score >= 70
        THEN <<OFFICIAL_TEAM_NAMES[match.choice], match.choice>>
        ELSE <<None, None>>

(***************************************************************************)
(* plot_multiple_timelines_plotly                                          *)
(***************************************************************************)
\* f"{first} {last}"
PlayerName(first, last) == <<first, last>>

\* the go.Bar traces of one player's blocks; seen is the legend labels seen so far
RECURSIVE BarsOf(_, _, _, _)
BarsOf(player_name, blocks, i, seen) ==
    IF i > Len(blocks) THEN <<>>
    ELSE LET start == blocks[i][1]
             end == blocks[i][2]
             team == blocks[i][3]
             color == DictGet(TEAM_COLORS, team, "#888888")
             team_full_name == DictGet(TEAM_NAMES, team, "Unknown Team")
             legend_label == <<team, team_full_name>>
         IN  << [x |-> end - start + 1, y |-> player_name, base |-> start,
                 name |-> legend_label, color |-> color, text |-> team,
                 showlegend |-> legend_label \notin seen] >>
             \o BarsOf(player_name, blocks, i + 1, seen \cup {legend_label})

\* the legend labels of a sequence of traces
LegendsOf(bars) == {bars[i].name : i \in 1..Len(bars)}

\* the outcomes of the loop over player_list from entry i on: the blocks got
\* for each entry and the traces added, or the exception that ended the loop
RECURSIVE PlotFrom(_, _, _, _, _, _, _)
PlotFrom(player_list, i, people_df, batting_df, teams_df, rows, bars) ==
    IF i > Len(player_list)
    THEN {[raised |-> None, rows |-> rows, bars |-> bars]}
    ELSE LET first == player_list[i][1]
             last == player_list[i][2]
         IN  UNION {
               IF r.raised /= None
               THEN {[raised |-> r.raised, rows |-> rows, bars |-> bars]}
               ELSE PlotFrom(player_list, i + 1, people_df, batting_df, teams_df,
                             Append(rows, [first |-> first, last |-> last,
                                           blocks |-> r.value]),
                             bars \o BarsOf(PlayerName(first, last), r.value, 1,
                                            LegendsOf(bars)))
               : r \in get_player_team_blocks(first, last, people_df, batting_df, teams_df) }

plot_multiple_timelines_plotly(player_list, people_df, batting_df, teams_df) ==
    PlotFrom(player_list, 1, people_df, batting_df, teams_df, <<>>, <<>>)

(***************************************************************************)
(* main                                                                    *)
(***************************************************************************)
\* the finalgame cells that pd.to_datetime parses, with the year of each
DateYear == ("2019-09-29" :> 2019)

\* pd.to_datetime(finalgame, errors='coerce').dt.year of one cell: an empty
\* cell and a cell that does not parse both give NaT, whose year is NaN
FinalYear(finalgame) ==
    IF finalgame \in DOMAIN DateYear
    THEN [isna |-> FALSE, year |-> DateYear[finalgame]]
    ELSE [isna |-> TRUE, year |-> 0]

\* active_players_df['playerid']
ActivePlayerIds(people_df) ==
    {people_df[i].playerid :
        i \in {j \in 1..Len(people_df) : FinalYear(people_df[j].finalgame).isna}}

\* batting[batting['playerid'].isin(active_players_df['playerid'])]
ActiveBatting(people_df, batting_df) ==
    SelectSeq(batting_df, LAMBDA r : r.playerid \in ActivePlayerIds(people_df))

\* active_batting.groupby('playerid')['yearid'].max() for one player
LatestYear(active_batting, player_id) ==
    LET ys == {active_batting[i].yearid :
                  i \in {j \in 1..Len(active_batting) :
                            active_batting[j].playerid = player_id}}
    IN  CHOOSE y \in ys : \A z \in ys : z <= y

\* the inner merge with latest_years, then the left merge with teams
LatestBatting(people_df, batting_df, teams_df) ==
    LET active_batting == ActiveBatting(people_df, batting_df)
        latest == SelectSeq(active_batting,
                            LAMBDA r : r.yearid = LatestYear(active_batting, r.playerid))
    IN  Merge(latest, teams_df)

\* groupby(['playerid','yearid'])['franchid'].unique() for one player: the
\* distinct franchid values of the group, all NaN cells counting as one value
UniqueFranchids(latest_batting, player_id) ==
    {latest_batting[i].franchid :
        i \in {j \in 1..Len(latest_batting) : latest_batting[j].playerid = player_id}}

\* mutant of OnlyThisTeam: the length of the group is not looked at
OnlyThisTeam_AnyRow(franchids, code) == \E t \in franchids : PyEq(t, code)

\* the lambda of line 186 on one group's unique values
OnlyThisTeam(franchids, code) ==
    Cardinality(franchids) = 1 /\ \A t \in franchids : PyEq(t, code)

\* only_team_players, as a set (it is used through isin only)
OnlyTeamPlayers(latest_batting, code) ==
    {pid \in {latest_batting[i].playerid : i \in 1..Len(latest_batting)} :
        OnlyThisTeam(UniqueFranchids(latest_batting, pid), code)}

\* people[people['playerid'].isin(ids)][['namefirst','namelast']].dropna().values.tolist()
TeamPlayerNames(people_df, ids) ==
    LET kept == SelectSeq(people_df, LAMBDA r : /\ r.playerid \in ids
                                                /\ r.namefirst /= NaN
                                                /\ r.namelast /= NaN)
    IN  [i \in 1..Len(kept) |-> <<kept[i].namefirst, kept[i].namelast>>]

(***************************************************************************)
(* Inputs of the model.                                                    *)
(***************************************************************************)
PlayerIdList == <<"p1", "p2">>
TeamIdList == <<"tA", "tB">>
FranchIds == {"BOS", "NYY"}
FirstNames == {"Al", "Bo"}
LastNames == {"Kim", "Lee"}
\* an empty cell, a date, and a cell that is no date
FinalGames == {NaN, "2019-09-29", "unknown"}
\* scores a query gets besides 0
HitScores == {69, 70, 100}

SeqRange(s) == {s[i] : i \in 1..Len(s)}

\* every (playerid, yearid, teamid) row, in a fixed order
AllBattingRows ==
    [k \in 1..(Len(PlayerIdList) * MaxYear * Len(TeamIdList)) |->
        [playerid |-> PlayerIdList[((k - 1) \div (MaxYear * Len(TeamIdList))) + 1],
         yearid |-> (((k - 1) \div Len(TeamIdList)) % MaxYear) + 1,
         teamid |-> TeamIdList[((k - 1) % Len(TeamIdList)) + 1]]]

\* the frame of the rows number ix[i], ix[i + 1], ... of AllBattingRows
RECURSIVE BattingRowsAt(_, _)
BattingRowsAt(ix, i) ==
    IF i > Len(ix) THEN <<>>
    ELSE <<AllBattingRows[ix[i]]>> \o BattingRowsAt(ix, i + 1)

\* the batting frames: every multiset of at most m rows, each in one row order
BattingTables(m) ==
    UNION {
      {BattingRowsAt(ix, 1) :
          ix \in {jx \in [1..n -> 1..Len(AllBattingRows)] :
                     \A i \in 1..(n - 1) : jx[i] <= jx[i + 1]}}
      : n \in 0..m }

\* every (teamid, yearid) key, in a fixed order
AllTeamYears ==
    [k \in 1..(Len(TeamIdList) * MaxYear) |->
        [teamid |-> TeamIdList[((k - 1) \div MaxYear) + 1],
         yearid |-> ((k - 1) % MaxYear) + 1]]

\* the teams frame in which team t is of franchise f[t] in every season, and
\* has no row at all when f[t] is None
TeamsOf(f) ==
    LET keys == SelectSeq(AllTeamYears, LAMBDA k : f[k.teamid] /= None)
    IN  [i \in 1..Len(keys) |->
            [teamid |-> keys[i].teamid, yearid |-> keys[i].yearid,
             franchid |-> f[keys[i].teamid]]]

TeamsTables == {TeamsOf(f) : f \in [SeqRange(TeamIdList) -> FranchIds \cup {None}]}

\* the teams frames of main: tA is a Boston team, tB is one too, or a New York
\* team, or has no row
TeamsForMain ==
    {TeamsOf(f) : f \in {g \in [SeqRange(TeamIdList) -> FranchIds \cup {None}] :
                            g["tA"] = "BOS"}}

Person(id, first, last, final) ==
    [playerid |-> id, namefirst |-> first, namelast |-> last, finalgame |-> final]

\* the people frames given to get_player_team_blocks: no row, one row, two
\* rows with different names, two rows with the same name
PeopleForBlocks ==
    { <<>>,
      << Person("p1", "Al", "Kim", NaN) >>,
      << Person("p1", "Al", "Kim", NaN), Person("p2", "Bo", "Kim", NaN) >>,
      << Person("p2", "Al", "Kim", NaN), Person("p1", "Al", "Kim", NaN) >> }

\* the people frames of main: p1 is Al Kim with any of the finalgame cells, p2
\* has the same name, another name or no first name, and a date or none
PeopleForMain ==
    { << Person("p1", "Al", "Kim", g1), Person("p2", n2, "Kim", g2) >> :
         g1 \in FinalGames, g2 \in FinalGames \ {"unknown"},
         n2 \in FirstNames \cup {NaN} }

\* the scoring in which the first n names score 0
RECURSIVE Zeros(_)
Zeros(n) == IF n = 0 THEN <<>> ELSE Append(Zeros(n - 1), 0)

\* the scoring in which every name scores 0
ZeroScores == Zeros(Len(OFFICIAL_TEAM_NAMES_keys))

\* the scoring score, but name number idx[j] scores val[j], from j on
RECURSIVE WithHits(_, _, _, _)
WithHits(score, idx, val, j) ==
    IF j > Len(idx) THEN score
    ELSE WithHits([score EXCEPT ![idx[j]] = val[j]], idx, val, j + 1)

\* the ways to pick k names of the directory, as ascending indexes
HitIndexes(k) ==
    {jx \in [1..k -> 1..Len(OFFICIAL_TEAM_NAMES_keys)] :
        \A i \in 1..(k - 1) : jx[i] < jx[i + 1]}

\* score is a scoring with at most MaxHits non-zero scores
IsScoreTable(score) ==
    \E k \in 0..MaxHits :
        \E idx \in HitIndexes(k) :
            \E val \in [1..k -> HitScores] :
                score = WithHits(ZeroScores, idx, val, 1)

\* the index of a name in the directory
KeyIndex(name) ==
    CHOOSE i \in 1..Len(OFFICIAL_TEAM_NAMES_keys) : OFFICIAL_TEAM_NAMES_keys[i] = name

\* the scoring in which one name scores v and every other name 0
OneHit(name, v) == [ZeroScores EXCEPT ![KeyIndex(name)] = v]

\* the queries of main: none, one that matches nothing well enough, one
\* matching each franchise of the teams frames
MainInputs ==
    { [input |-> "", score |-> ZeroScores],
      [input |-> "Red sox?", score |-> OneHit("Boston Red Sox", 69)],
      [input |-> "Red sox", score |-> OneHit("Boston Red Sox", 100)],
      [input |-> "Yankees", score |-> OneHit("New York Yankees", 100)] }

(***************************************************************************)
(* States and actions.                                                     *)
(***************************************************************************)
InitOutputs ==
    /\ pc = "idle"
    /\ call = None
    /\ ret = Return(<<>>)
    /\ franchise_code = None
    /\ matched_name = None
    /\ only_team_players = {}
    /\ team_player_names = <<>>
    /\ plotted = <<>>
    /\ traces = <<>>
    /\ message = <<>>

\* one call get_player_team_blocks(first, last, people, batting, teams)
CallGetPlayerTeamBlocks ==
    /\ pc = "idle"
    /\ \E first \in FirstNames, last \in LastNames :
         \E r \in get_player_team_blocks(first, last, people, batting, teams) :
            /\ call' = [player_first |-> first, player_last |-> last]
            /\ ret' = r
    /\ pc' = "returned"
    /\ UNCHANGED <<people, batting, teams, team_name_input, scores, franchise_code,
                   matched_name, only_team_players, team_player_names, plotted,
                   traces, message>>

InitBlocks ==
    /\ people \in PeopleForBlocks
    /\ batting \in BattingTables(MaxRows)
    /\ teams \in TeamsTables
    /\ team_name_input = ""
    /\ scores = ZeroScores
    /\ InitOutputs

NextBlocks == CallGetPlayerTeamBlocks

SpecBlocks == InitBlocks /\ [][NextBlocks]_vars

\* one call get_franchise_code_from_input(team_name_input)
CallGetFranchiseCodeFromInput ==
    /\ pc = "idle"
    /\ franchise_code' = get_franchise_code_from_input(scores)[1]
    /\ matched_name' = get_franchise_code_from_input(scores)[2]
    /\ pc' = "returned"
    /\ UNCHANGED <<people, batting, teams, team_name_input, scores, call, ret,
                   only_team_players, team_player_names, plotted, traces, message>>

InitResolve ==
    /\ people = <<>>
    /\ batting = <<>>
    /\ teams = <<>>
    /\ team_name_input = "query"
    /\ IsScoreTable(scores)
    /\ InitOutputs

NextResolve == CallGetFranchiseCodeFromInput

SpecResolve == InitResolve /\ [][NextResolve]_vars

\* main with an empty text input: nothing after line 174 runs
MainNoInput ==
    /\ pc = "idle"
    /\ team_name_input = ""
    /\ pc' = "done"
    /\ UNCHANGED <<people, batting, teams, team_name_input, scores, call, ret,
                   franchise_code, matched_name, only_team_players,
                   team_player_names, plotted, traces, message>>

\* main when the resolver finds no match: st.error and return
MainNoMatch ==
    /\ pc = "idle"
    /\ team_name_input /= ""
    /\ get_franchise_code_from_input(scores)[1] = None
    /\ franchise_code' = None
    /\ matched_name' = None
    /\ message' = <<"error">>
    /\ pc' = "done"
    /\ UNCHANGED <<people, batting, teams, team_name_input, scores, call, ret,
                   only_team_players, team_player_names, plotted, traces>>

\* main when no player is left to plot: st.success, then st.warning
MainNoPlayers ==
    /\ pc = "idle"
    /\ team_name_input /= ""
    /\ LET code == get_franchise_code_from_input(scores)[1]
           ids == OnlyTeamPlayers(LatestBatting(people, batting, teams), code)
           names == TeamPlayerNames(people, ids)
       IN  /\ code /= None
           /\ Len(names) = 0
           /\ franchise_code' = code
           /\ matched_name' = get_franchise_code_from_input(scores)[2]
           /\ only_team_players' = ids
           /\ team_player_names' = names
    /\ message' = <<"success", "warning">>
    /\ pc' = "done"
    /\ UNCHANGED <<people, batting, teams, team_name_input, scores, call, ret,
                   plotted, traces>>

\* main when there are players to plot: st.success, then the chart
MainPlot ==
    /\ pc = "idle"
    /\ team_name_input /= ""
    /\ LET code == get_franchise_code_from_input(scores)[1]
           ids == OnlyTeamPlayers(LatestBatting(people, batting, teams), code)
           names == TeamPlayerNames(people, ids)
       IN  /\ code /= None
           /\ Len(names) /= 0
           /\ franchise_code' = code
           /\ matched_name' = get_franchise_code_from_input(scores)[2]
           /\ only_team_players' = ids
           /\ team_player_names' = names
           /\ \E fig \in plot_multiple_timelines_plotly(names, people, batting, teams) :
                 /\ plotted' = fig.rows
                 /\ traces' = fig.bars
                 /\ message' = IF fig.raised = None
                               THEN <<"success", "chart">>
                               ELSE <<"success", fig.raised>>
    /\ pc' = "done"
    /\ UNCHANGED <<people, batting, teams, team_name_input, scores, call, ret>>

InitMain ==
    /\ people \in PeopleForMain
    /\ batting \in BattingTables(MaxMainRows)
    /\ teams \in TeamsForMain
    /\ \E q \in MainInputs : team_name_input = q.input /\ scores = q.score
    /\ InitOutputs

NextMain == MainNoInput \/ MainNoMatch \/ MainNoPlayers \/ MainPlot

SpecMain == InitMain /\ [][NextMain]_vars

\* the three together: any of the inputs, any of the operations
Init == InitBlocks \/ InitResolve \/ InitMain

Next == NextBlocks \/ NextResolve \/ NextMain

Spec == Init /\ [][Next]_vars

(***************************************************************************)
(* What the claims speak of, stated on the frames themselves.              *)
(***************************************************************************)
Min(S) == CHOOSE x \in S : \A y \in S : x <= y
Max(S) == CHOOSE x \in S : \A y \in S : y <= x

\* the rows of people that carry the called name
CalledRows ==
    {i \in 1..Len(people) : /\ people[i].namefirst = call.player_first
                            /\ people[i].namelast = call.player_last}

\* the player the call is about: the first of these rows
CalledPlayer == people[Min(CalledRows)].playerid

\* the (year, franchise) observations of a player: one per batting row and
\* matching TeamSeason row, and one with a null franchise per batting row
\* that has no TeamSeason match
Observations(pid) ==
    LET mine == {i \in 1..Len(batting) : batting[i].playerid = pid}
        match(i) == {j \in 1..Len(teams) : /\ teams[j].teamid = batting[i].teamid
                                           /\ teams[j].yearid = batting[i].yearid}
    IN  UNION {IF match(i) = {}
               THEN {<<batting[i].yearid, NaN>>}
               ELSE {<<batting[i].yearid, teams[j].franchid>> : j \in match(i)}
               : i \in mine}

ObservedYears(pid) == {o[1] : o \in Observations(pid)}
ObservedFranchises(pid) == {o[2] : o \in Observations(pid)}

\* the call has returned and found the player in people
Found == pc = "returned" /\ CalledRows /= {}

(***************************************************************************)
(* C1. A player whose batting rows all resolve to one non-null franchise   *)
(* gets exactly one block (min_year, max_year, franchise), whatever the    *)
(* gaps between the years and the number of rows in a year.                *)
(***************************************************************************)
C1_OneFranchiseOneBlock ==
    (/\ Found
     /\ Cardinality(ObservedFranchises(CalledPlayer)) = 1
     /\ NaN \notin ObservedFranchises(CalledPlayer))
    => /\ ret.raised = None
       /\ ret.value = << << Min(ObservedYears(CalledPlayer)),
                            Max(ObservedYears(CalledPlayer)),
                            CHOOSE f \in ObservedFranchises(CalledPlayer) : TRUE >> >>

\* one franchise, a year with two rows, and a gap year before the last row
C1_Witness ==
    /\ Found
    /\ ObservedFranchises(CalledPlayer) = {"BOS"}
    /\ ObservedYears(CalledPlayer) = {1, 3}
    /\ Len(SelectBatting(CalledPlayer, batting)) = 3
    /\ ret.value = << <<1, 3, "BOS">> >>

(***************************************************************************)
(* C2. The returned blocks are sorted ascending by start_year and each     *)
(* block ends strictly before the next one starts.                         *)
(***************************************************************************)
C2_SortedNonOverlapping ==
    pc = "returned" =>
        \A i \in 1..(Len(ret.value) - 1) :
            /\ ret.value[i][1] <= ret.value[i + 1][1]
            /\ ret.value[i][2] < ret.value[i + 1][1]

\* three blocks, the player having an unresolved row among his rows
C2_Witness ==
    /\ Found
    /\ Len(ret.value) = 3
    /\ NaN \in ObservedFranchises(CalledPlayer)
    /\ Cardinality(ObservedYears(CalledPlayer)) = 3

(***************************************************************************)
(* C3. The blocks cover exactly the years of the player's batting history: *)
(* every observation (year, franchise) lies in a block of that franchise,  *)
(* and every block starts and ends in a year that has a batting row.       *)
(* Stated of the players all of whose rows resolve to a franchise, whom    *)
(* the claim includes.                                                     *)
(***************************************************************************)
C3_CoversExactlyTheYears ==
    (Found /\ NaN \notin ObservedFranchises(CalledPlayer)) =>
        /\ \A o \in Observations(CalledPlayer) :
              \E i \in 1..Len(ret.value) :
                  /\ ret.value[i][3] = o[2]
                  /\ ret.value[i][1] <= o[1]
                  /\ o[1] <= ret.value[i][2]
        /\ \A i \in 1..Len(ret.value) :
              /\ ret.value[i][1] \in ObservedYears(CalledPlayer)
              /\ ret.value[i][2] \in ObservedYears(CalledPlayer)

(***************************************************************************)
(* C4. get_player_team_blocks never raises; it returns no block when the   *)
(* player is not in people or has no batting row, and at least one block   *)
(* when the player has a batting row.                                      *)
(***************************************************************************)
C4_Total ==
    pc = "returned" =>
        /\ ret.raised = None
        /\ CalledRows = {} => ret.value = <<>>
        /\ (CalledRows /= {} /\ Observations(CalledPlayer) = {}) => ret.value = <<>>
        /\ (CalledRows /= {} /\ Observations(CalledPlayer) /= {}) => ret.value /= <<>>

\* the player is in people and has no batting row, while the frame has rows
C4_Witness ==
    /\ Found
    /\ Observations(CalledPlayer) = {}
    /\ Len(batting) = MaxRows
    /\ ret = Return(<<>>)

(***************************************************************************)
(* C7. A run of rows with a null franchise makes one block, as a run of    *)
(* one resolved franchise does: no two consecutive blocks carry the same   *)
(* franchise value, and a player whose rows are all unresolved gets the    *)
(* one block (min_year, max_year, null).  Stated of the players who have   *)
(* one batting row a year, whom the claim includes.                        *)
(***************************************************************************)
C7_NullRunIsOneBlock ==
    (/\ Found
     /\ Len(SelectBatting(CalledPlayer, batting)) = Cardinality(ObservedYears(CalledPlayer)))
    =>
        /\ \A i \in 1..(Len(ret.value) - 1) : ret.value[i][3] /= ret.value[i + 1][3]
        /\ ObservedFranchises(CalledPlayer) = {NaN} =>
              ret.value = << << Min(ObservedYears(CalledPlayer)),
                                Max(ObservedYears(CalledPlayer)), NaN >> >>

(***************************************************************************)
(* C9. Every returned block has start_year <= end_year, so the bar width   *)
(* end_year - start_year + 1 is at least 1.  Stated of the players all of  *)
(* whose rows resolve to a franchise, whom the claim includes.             *)
(***************************************************************************)
C9_StartNotAfterEnd ==
    (Found /\ NaN \notin ObservedFranchises(CalledPlayer)) =>
        \A i \in 1..Len(ret.value) : ret.value[i][1] <= ret.value[i][2]

(***************************************************************************)
(* C5. The resolver returns (None, None) exactly when the highest score    *)
(* over the directory names is below 70, and otherwise the code and name   *)
(* of the first directory entry, in iteration order, that has that score.  *)
(***************************************************************************)
BestScore == Max({scores[i] : i \in 1..Len(scores)})
FirstBest == Min({i \in 1..Len(scores) : scores[i] = BestScore})

C5_ThresholdAndFirstBest ==
    pc = "returned" =>
        /\ (franchise_code = None /\ matched_name = None) <=> BestScore < 70
        /\ BestScore >= 70 =>
              /\ matched_name = OFFICIAL_TEAM_NAMES_items[FirstBest][1]
              /\ franchise_code = OFFICIAL_TEAM_NAMES_items[FirstBest][2]

\* two names share the highest score, which is the threshold itself
C5_Witness ==
    /\ pc = "returned"
    /\ BestScore = 70
    /\ Cardinality({i \in 1..Len(scores) : scores[i] = BestScore}) = 2
    /\ franchise_code = OFFICIAL_TEAM_NAMES_items[FirstBest][2]

(***************************************************************************)
(* C10. The static tables agree: TEAM_NAMES is the exact inverse of the    *)
(* 30 entries of OFFICIAL_TEAM_NAMES, and every code the resolver returns  *)
(* has a color in TEAM_COLORS.                                             *)
(***************************************************************************)
C10_TablesConsistent ==
    /\ Len(OFFICIAL_TEAM_NAMES_items) = 30
    /\ Cardinality(DOMAIN OFFICIAL_TEAM_NAMES) = 30
    /\ Cardinality(DOMAIN TEAM_NAMES) = 30
    /\ \A n \in DOMAIN OFFICIAL_TEAM_NAMES : TEAM_NAMES[OFFICIAL_TEAM_NAMES[n]] = n
    /\ (pc = "returned" /\ franchise_code /= None) =>
          DictGet(TEAM_COLORS, franchise_code, "#888888") /= "#888888"

(***************************************************************************)
(* The roster filter of main.                                              *)
(***************************************************************************)
PeopleIds == {people[i].playerid : i \in 1..Len(people)}
FinalGameOf(pid) == people[CHOOSE i \in 1..Len(people) : people[i].playerid = pid].finalgame

\* the franchise values of a player's observations in his latest year
LatestFranchises(pid) ==
    {o[2] : o \in {q \in Observations(pid) : q[1] = Max(ObservedYears(pid))}}

\* main has run and the query resolved to a franchise code
Resolved == pc = "done" /\ franchise_code /= None

SelectedInOrder == SelectSeq(people, LAMBDA r : r.playerid \in only_team_players)

\* the block sequences the batting rows of one player id can give
BlocksOfId(pid) ==
    {ExtractBlocks(m).value :
        m \in SortValues(Merge(SelectBatting(pid, batting), teams))}

C8_RowsAreTheSelectedPlayers ==
    (/\ Resolved
     /\ \A i \in 1..Len(people) : people[i].namefirst /= NaN /\ people[i].namelast /= NaN)
    => /\ Len(plotted) = Cardinality(only_team_players)
       /\ \A i \in 1..Len(plotted) :
             plotted[i].blocks \in BlocksOfId(SelectedInOrder[i].playerid)

====
